---------------------------- MODULE Spec2Model ----------------------------
(***************************************************************************)
(* A model of basicStats/basics.py: the column recognisers                 *)
(* (unique_values_count, binary_/categorical_column_recognition,           *)
(* continuous_variable_recognition, column_with_missing_value) and the     *)
(* raw_data facade that applies them to the columns of a table.            *)
(*                                                                         *)
(* Library behaviour the source relies on (numpy, pandas, Python 3):       *)
(*   - np.isnan has no loop for object arrays: it raises TypeError on a    *)
(*     text (object) column, and accepts int, float and bool columns;      *)
(*   - np.unique returns the sorted distinct values, whose elements are    *)
(*     numpy scalars of the array's dtype;                                 *)
(*   - np.str and np.float are the aliases of the builtins str and float   *)
(*     (the numpy releases that still define them): np.float64 derives     *)
(*     from float, np.float32 does not;                                    *)
(*   - `x in list` is true when some element is x itself or equals x, and  *)
(*     NaN equals nothing, itself included;                                *)
(*   - iterating a float Series yields new float objects, iterating an     *)
(*     object Series yields the stored objects;                            *)
(*   - None > 0, `x in None` and iterating None raise TypeError, and       *)
(*     DataFrame[None] raises KeyError;                                    *)
(*   - DataFrame.apply(f, axis=0) hands f each column as a Series of the   *)
(*     column's own dtype, and DataFrame.sample(n) draws n rows without    *)
(*     replacement.                                                        *)
(* The moments and tests of scipy.stats are the library's: the normality   *)
(* report is modelled by its rows, not by their values.  The ten methods   *)
(* that only compute statistics (get_mean_traditional to                   *)
(* get_skewness_report) are not modelled.                                  *)
(***************************************************************************)
EXTENDS Integers, Sequences, FiniteSets, TLC

VARIABLES
    column,     \* the column handed to a module-level recogniser
    fn,         \* the recogniser called last on it ("" before any call)
    ret,        \* what that call returned or raised
    raw_data,   \* self.raw_data: the table wrapped by the raw_data instance
    pandas_empty_apply,
                \* what the installed pandas makes of DataFrame.apply on a
                \* frame with no rows or no columns and of indexing the
                \* columns with it: "mask" (nothing selected) or "raise"
    last,       \* the facade call made last: method, argument, outcome, prints
    watched     \* an earlier call of the instance, kept to compare a later
                \* call of the same method with ("" while none is kept), and
                \* whether that method has been called again since

vars == <<column, fn, ret, raw_data, pandas_empty_apply, last, watched>>

---------------------------------------------------------------------------
(* Bounds of the inputs.                                                   *)

\* Longest column of the exhaustively enumerated columns.
MaxLen == 3
\* Distinct numbers and words a short column draws its cells from.
NumVals == 3
\* Longest all-distinct column; above the categorical limit of 30.
MaxDistinct == 32
\* Most rows of a table wrapped by the facade.
MaxRows == 3
\* The names of its columns: a table has the first c of them, c = 0, 1, 2.
ColumnLabels == <<"A", "B">>

---------------------------------------------------------------------------
(* Cells, columns and outcomes.                                            *)

Num(n)   == [k |-> "num",  n |-> n, s |-> ""]
Bool(b)  == [k |-> "bool", n |-> IF b THEN 1 ELSE 0, s |-> ""]
\* a string given by its text
Str(s)   == [k |-> "str",  n |-> 0, s |-> s]
\* the i-th ordinary word "w<i>": distinct i, distinct strings
Word(i)  == [k |-> "str",  n |-> i, s |-> "w"]
\* a NaN held in a float array: every read makes a new float object
NaNFloat == [k |-> "nan",  n |-> 0, s |-> "float"]
\* the np.nan object itself, held in an object array
NpNan    == [k |-> "nan",  n |-> 0, s |-> "np.nan"]
\* None held in an object array
NoneCell == [k |-> "none", n |-> 0, s |-> ""]

\* A column (a Series or an ndarray): its dtype and its cells.
Column(dtype, vals) == [dtype |-> dtype, vals |-> vals]

Value(v) == [tag |-> "value", val |-> v]
Raise(e) == [tag |-> "raise", val |-> e]
\* a call that falls off its end, or returns after a print, returns None
NoneResult == [tag |-> "none", val |-> "None"]
NotCalled  == [tag |-> "", val |-> ""]

Returned(r, v) == r.tag = "value" /\ r.val = v

---------------------------------------------------------------------------
(* The module-level functions of basics.py.                                *)

\* np.isnan, elementwise
isnan(cell) == cell.k = "nan"

\* The sorted sequence of the cells of S (np.unique sorts its result).
RECURSIVE SortCells(_)
SortCells(S) ==
    IF S = {} THEN <<>>
    ELSE LET m == CHOOSE x \in S : \A y \in S : x.n <= y.n
         IN  <<m>> \o SortCells(S \ {m})

\* np.unique(column[~np.isnan(column)])
get_unique_values(col) ==
    IF col.dtype = "object"
    THEN Raise("TypeError")
    ELSE Value(SortCells({col.vals[i] : i \in {j \in DOMAIN col.vals : ~isnan(col.vals[j])}}))

\* len(get_unique_values(column))
unique_values_count(col) ==
    LET u == get_unique_values(col)
    IN  IF u.tag = "raise" THEN u ELSE Value(Len(u.val))

\* unique_values_count(column) == 2
binary_column_recognition(col) ==
    LET c == unique_values_count(col)
    IN  IF c.tag = "raise" THEN c ELSE Value(c.val = 2)

\* The classes of the scalar np.unique yields for an array of this dtype.
ScalarClasses(dtype) ==
    CASE dtype = "int64"   -> {"np.int64", "np.signedinteger", "np.integer", "np.number"}
      [] dtype = "float64" -> {"np.float64", "np.floating", "np.number", "float"}
      [] dtype = "float32" -> {"np.float32", "np.floating", "np.number"}
      [] dtype = "bool"    -> {"np.bool_"}
      [] OTHER             -> {"str"}

\* np.str and np.float name the builtins
np_str   == "str"
np_float == "float"

isinstance(dtype, classes) == ScalarClasses(dtype) \cap classes # {}

\* the upper limit of condition1
CategoricalMaxUnique == 30

\* condition2 is computed whatever condition1 is: [0] on an empty array raises
categorical_column_recognition(col) ==
    LET c == unique_values_count(col)
    IN  IF c.tag = "raise" THEN c
        ELSE LET condition1 == 2 < c.val /\ c.val <= CategoricalMaxUnique
                 u == get_unique_values(col)
             IN  IF u.tag = "raise" THEN u
                 ELSE IF Len(u.val) = 0 THEN Raise("IndexError")
                 ELSE LET condition2 == isinstance(col.dtype, {np_str, "np.integer"})
                      IN  Value(condition1 /\ condition2)

\* column[0] is read before the count is compared with 2
continuous_variable_recognition(col) ==
    LET u == get_unique_values(col)
    IN  IF u.tag = "raise" THEN u
        ELSE IF Len(u.val) = 0 THEN Raise("IndexError")
        ELSE LET arr == Column(col.dtype, u.val)
                 c   == unique_values_count(arr)
             IN  IF c.tag = "raise" THEN c
                 ELSE Value(c.val > 2 /\ isinstance(arr.dtype, {"np.integer", np_float}))

common_missing_value_format ==
    <<NpNan, Str(" "), Str("\"\""), Str("''"), Str("()"), Str("[]"), Str("{}"),
      Str("?"), Str("*"), Str(".")>>

\* x is y: only the np.nan object is told apart from another NaN
PyIs(x, y) == x = NpNan /\ y = NpNan
\* x == y: NaN equals nothing
PyEq(x, y) == x.k # "nan" /\ y.k # "nan" /\ x = y
\* x in lst
PyIn(x, lst) == \E i \in DOMAIN lst : PyIs(x, lst[i]) \/ PyEq(x, lst[i])

\* The loop returns in both branches of its first iteration.
column_with_missing_value(col) ==
    IF Len(col.vals) = 0 THEN NoneResult
    ELSE LET value == col.vals[1]
         IN  IF PyIn(value, common_missing_value_format)
             THEN Value(TRUE) ELSE Value(FALSE)

---------------------------------------------------------------------------
(* The raw_data class.  A table is its row count and its columns in order, *)
(* each a column with a name; every column has nrows cells.                *)

Table(nrows, cols) == [nrows |-> nrows, cols |-> cols]

\* The outcome of a method call: what it returns or raises, and the lines
\* it printed on the way.
Out(tag, val, out) == [tag |-> tag, val |-> val, out |-> out]

Indices(n) == [i \in 1..n |-> i]
Min(S) == CHOOSE x \in S : \A y \in S : x <= y

\* self.raw_data.shape
shape(t) == <<t.nrows, Len(t.cols)>>

\* list(self.raw_data.columns.values)
columns(t) == [i \in 1..Len(t.cols) |-> t.cols[i].name]

\* self.raw_data.apply(f, axis=0), given rs, the outcome of f on each column
\* in order: the first exception ends it.  On a frame with an empty axis
\* pandas does not call f on the columns: the outcome is the installed
\* pandas's.
apply(t, rs) ==
    IF t.nrows = 0 \/ Len(t.cols) = 0
    THEN IF pandas_empty_apply = "mask"
         THEN Value([i \in 1..Len(t.cols) |-> FALSE])
         ELSE Raise("IndexError")
    ELSE LET bad == {i \in 1..Len(t.cols) : rs[i].tag = "raise"}
         IN  IF bad # {} THEN rs[Min(bad)]
             ELSE Value([i \in 1..Len(t.cols) |-> rs[i].val])

\* self.raw_data.columns[mask]
columns_where(t, mask) ==
    LET idx == SelectSeq(Indices(Len(t.cols)), LAMBDA i : mask[i])
    IN  [j \in 1..Len(idx) |-> t.cols[idx[j]].name]

get_row_number(t) ==
    IF shape(t)[1] > 0 THEN Out("value", shape(t)[1], <<>>)
    ELSE Out("none", "None", <<"not read properly">>)

get_column_number(t) ==
    IF shape(t)[2] > 0 THEN Out("value", shape(t)[2], <<>>)
    ELSE Out("none", "None", <<"not read properly">>)

\* DataFrame.sample(n): n draws without replacement; the rows drawn, each by
\* its position in the table
DataFrame_sample(t, n) ==
    {rows \in SUBSET (1..t.nrows) : Cardinality(rows) = n}

\* sample_n_rows with the test n < 0 for n < 1
sample_n_rows_from_zero(t, n) ==
    IF n < 0 THEN {Out("none", "None", <<"please enter integer >= 1">>)}
    ELSE IF n > t.nrows THEN {Out("raise", "ValueError", <<>>)}
    ELSE {Out("value", rows, <<>>) : rows \in DataFrame_sample(t, n)}

\* the outcomes of sample_n_rows(n)
sample_n_rows(t, n) ==
    IF n < 1 THEN {Out("none", "None", <<"please enter integer >= 1">>)}
    ELSE IF n > t.nrows THEN {Out("raise", "ValueError", <<>>)}
    ELSE {Out("value", rows, <<>>) : rows \in DataFrame_sample(t, n)}

\* self.get_row_number() > 0 compares None with 0 when there is no row
get_values(t) ==
    LET r == get_row_number(t)
    IN  IF r.tag = "none" THEN Out("raise", "TypeError", r.out)
        ELSE IF r.val > 0 THEN Out("value", t, r.out)
        ELSE Out("none", "None", r.out \o <<"not read properly">>)

get_columns(t) ==
    IF Len(columns(t)) > 0 THEN Out("value", columns(t), <<>>)
    ELSE Out("none", "None", <<"not read properly">>)

\* The four lists share their shape: apply the recogniser (rs: its outcome
\* on each column), index the columns, return the names or print and return
\* None.
column_list(t, rs, message) ==
    LET m == apply(t, rs)
    IN  IF m.tag = "raise" THEN Out("raise", m.val, <<>>)
        ELSE LET names == columns_where(t, m.val)
             IN  IF Len(names) > 0 THEN Out("value", names, <<>>)
                 ELSE Out("none", "None", <<message>>)

get_binary_column_list(t) ==
    column_list(t, [i \in 1..Len(t.cols) |-> binary_column_recognition(t.cols[i])],
                "no binary column")

\* get_columns() is read once; get_binary_column_list() is called for each
\* name x, and `x not in None` raises when it returned None.
get_non_binary_column_list(t) ==
    LET cols == get_columns(t)
    IN  IF cols.tag = "none" THEN Out("raise", "TypeError", cols.out)
        ELSE LET b == get_binary_column_list(t)
             IN  IF b.tag = "raise" THEN b
                 ELSE IF b.tag = "none" THEN Out("raise", "TypeError", b.out)
                 ELSE LET non_binary_columns ==
                              SelectSeq(cols.val,
                                        LAMBDA x : \A i \in DOMAIN b.val : b.val[i] # x)
                      IN  IF Len(non_binary_columns) > 0
                          THEN Out("value", non_binary_columns, <<>>)
                          ELSE Out("none", "None", <<"no non-binary column">>)

get_numeric_column_list(t) ==
    column_list(t, [i \in 1..Len(t.cols) |-> continuous_variable_recognition(t.cols[i])],
                "no numerical column")

get_categorical_column_list(t) ==
    column_list(t, [i \in 1..Len(t.cols) |-> categorical_column_recognition(t.cols[i])],
                "no categorical column")

\* on a table with rows column_with_missing_value returns a boolean
get_columns_with_apparent_missing_values(t) ==
    column_list(t, [i \in 1..Len(t.cols) |-> column_with_missing_value(t.cols[i])],
                "no columns with obvious missing values")

\* select_dtypes(exclude=[object, bool]) on the columns named in names
select_dtypes(t, names) ==
    SelectSeq(t.cols, LAMBDA c : /\ \E i \in DOMAIN names : names[i] = c.name
                                 /\ c.dtype \notin {"object", "bool"})

\* self.raw_data[None] raises KeyError.  The report has one row for each
\* selected column; the moments and tests are the library's and their values
\* are left out.
get_normality_report(t) ==
    LET only_continuous_variables == get_numeric_column_list(t)
    IN  IF only_continuous_variables.tag = "raise" THEN only_continuous_variables
        ELSE IF only_continuous_variables.tag = "none"
        THEN Out("raise", "KeyError", only_continuous_variables.out)
        ELSE LET selected == select_dtypes(t, only_continuous_variables.val)
                 skewness_vals == [i \in 1..Len(selected) |-> selected[i].name]
             IN  IF Len(skewness_vals) > 0 THEN Out("value", skewness_vals, <<>>)
                 ELSE Out("none", "None", <<"Something is wrong">>)

---------------------------------------------------------------------------
(* The inputs: the columns the recognisers are called on, and the tables   *)
(* a raw_data instance is constructed with.                                *)

DTypes == {"int64", "float64", "float32", "object", "bool"}

Markers ==
    {Str(" "), Str("\"\""), Str("''"), Str("()"), Str("[]"), Str("{}"),
     Str("?"), Str("*"), Str(".")}

\* The cells an array of each dtype can hold: only float arrays hold NaN,
\* only object arrays hold strings, the np.nan object and None.  A short
\* text column has words, one marker and the nulls anywhere.
Cells(dtype) ==
    CASE dtype = "int64"   -> {Num(i) : i \in 1..NumVals}
      [] dtype = "float64" -> {Num(i) : i \in 1..NumVals} \cup {NaNFloat}
      [] dtype = "float32" -> {Num(i) : i \in 1..NumVals} \cup {NaNFloat}
      [] dtype = "bool"    -> {Bool(TRUE), Bool(FALSE)}
      [] OTHER             -> {Word(i) : i \in 1..NumVals} \cup {Str(" "), NpNan, NoneCell}

\* every column of at most MaxLen cells
ShortColumns ==
    UNION {{Column(d, s) : s \in [1..l -> Cells(d)]} : d \in DTypes, l \in 0..MaxLen}

\* the i-th of the distinct values of a long column
RangeCell(dtype, i) == IF dtype = "object" THEN Word(i) ELSE Num(i)

\* the columns 1, 2, ..., k of distinct values, alone and after a null
RangeColumns ==
    UNION {{Column(d, [i \in 1..k |-> RangeCell(d, i)])} \cup
           (IF d = "int64" THEN {}
            ELSE {Column(d, [i \in 1..(k + 1) |->
                     IF i = 1 THEN (IF d = "object" THEN NpNan ELSE NaNFloat)
                     ELSE RangeCell(d, i - 1)])})
           : d \in DTypes \ {"bool"}, k \in (MaxLen + 1)..MaxDistinct}

\* the text columns that start with each marker
MarkerFirstColumns ==
    {Column("object", <<m>> \o tail) :
        m \in Markers, tail \in {<<>>, <<Word(1)>>, <<Word(1), Str("?")>>}}

Columns == ShortColumns \cup RangeColumns \cup MarkerFirstColumns

\* The kinds of column a table is built of, each a dtype and a rule for its
\* i-th cell.
ColumnKinds ==
    {"int_constant", "int_two_values", "int_distinct",
     "float_distinct", "float_nan_first", "float_all_nan", "float32_distinct",
     "text_distinct", "text_marker_first", "text_nan_first", "bool_two_values"}

KindDType(kind) ==
    CASE kind \in {"int_constant", "int_two_values", "int_distinct"} -> "int64"
      [] kind \in {"float_distinct", "float_nan_first", "float_all_nan"} -> "float64"
      [] kind = "float32_distinct" -> "float32"
      [] kind = "bool_two_values" -> "bool"
      [] OTHER -> "object"

KindCell(kind, i) ==
    CASE kind = "int_constant"      -> Num(1)
      [] kind = "int_two_values"    -> Num(1 + ((i - 1) % 2))
      [] kind = "int_distinct"      -> Num(i)
      [] kind = "float_distinct"    -> Num(i)
      [] kind = "float_nan_first"   -> IF i = 1 THEN NaNFloat ELSE Num(i - 1)
      [] kind = "float_all_nan"     -> NaNFloat
      [] kind = "float32_distinct"  -> Num(i)
      [] kind = "text_distinct"     -> Word(i)
      [] kind = "text_marker_first" -> IF i = 1 THEN Str("?") ELSE Word(i - 1)
      [] kind = "text_nan_first"    -> IF i = 1 THEN NpNan ELSE Word(i - 1)
      [] OTHER                      -> Bool(i % 2 = 1)

\* every table of at most MaxRows rows whose columns are of these kinds;
\* the column names are distinct and all columns have nrows cells
Tables ==
    UNION {{Table(r, [j \in 1..c |->
                [name  |-> ColumnLabels[j],
                 dtype |-> KindDType(kinds[j]),
                 vals  |-> [i \in 1..r |-> KindCell(kinds[j], i)]]])
            : kinds \in [1..c -> ColumnKinds]}
           : r \in 0..MaxRows, c \in 0..Len(ColumnLabels)}

---------------------------------------------------------------------------
(* The state machines.                                                     *)

NoCall == [method |-> "", arg |-> 0, tag |-> "", val |-> "", out |-> <<>>]
\* no call is kept yet
NoneWatched == [method |-> "", tag |-> "", val |-> "", out |-> <<>>, repeated |-> FALSE]

\* A recogniser called on the column.
CallColumn(name, result) ==
    /\ fn' = name
    /\ ret' = result
    /\ UNCHANGED <<column, raw_data, pandas_empty_apply, last, watched>>

UniqueValuesCount == CallColumn("unique_values_count", unique_values_count(column))
BinaryColumnRecognition ==
    CallColumn("binary_column_recognition", binary_column_recognition(column))
CategoricalColumnRecognition ==
    CallColumn("categorical_column_recognition", categorical_column_recognition(column))
ContinuousVariableRecognition ==
    CallColumn("continuous_variable_recognition", continuous_variable_recognition(column))
ColumnWithMissingValue ==
    CallColumn("column_with_missing_value", column_with_missing_value(column))

ColumnInit ==
    /\ column \in Columns
    /\ fn = ""
    /\ ret = NotCalled
    /\ raw_data = Table(0, <<>>)
    /\ pandas_empty_apply = "mask"
    /\ last = NoCall
    /\ watched = NoneWatched

ColumnNext ==
    \/ UniqueValuesCount
    \/ BinaryColumnRecognition
    \/ CategoricalColumnRecognition
    \/ ContinuousVariableRecognition
    \/ ColumnWithMissingValue

\* the recognisers, each called on any column
ColumnSpec == ColumnInit /\ [][ColumnNext]_vars

\* The record of a method call; while no call is kept, this one may be.
Called(method, arg, o) ==
    /\ last' = [method |-> method, arg |-> arg, tag |-> o.tag, val |-> o.val, out |-> o.out]
    /\ \/ watched' = [watched EXCEPT !.repeated = @ \/ watched.method = method]
       \/ /\ watched = NoneWatched
          /\ method # "sample_n_rows"
          /\ watched' = [method |-> method, tag |-> o.tag, val |-> o.val, out |-> o.out,
                         repeated |-> FALSE]
    /\ UNCHANGED <<column, fn, ret, pandas_empty_apply>>

\* No method assigns self.raw_data or changes the table in place.
GetRowNumber ==
    Called("get_row_number", 0, get_row_number(raw_data)) /\ UNCHANGED raw_data
GetColumnNumber ==
    Called("get_column_number", 0, get_column_number(raw_data)) /\ UNCHANGED raw_data
SampleNRows ==
    \E n \in (-1)..(MaxRows + 1) : \E o \in sample_n_rows(raw_data, n) :
        Called("sample_n_rows", n, o) /\ UNCHANGED raw_data
GetValues ==
    Called("get_values", 0, get_values(raw_data)) /\ UNCHANGED raw_data
GetColumns ==
    Called("get_columns", 0, get_columns(raw_data)) /\ UNCHANGED raw_data
\* get_binary_column_list keeping the binary columns as the instance's table
GetBinaryColumnList_narrowing ==
    LET o == get_binary_column_list(raw_data)
    IN  /\ Called("get_binary_column_list", 0, o)
        /\ raw_data' =
              IF o.tag = "value"
              THEN [raw_data EXCEPT !.cols =
                       SelectSeq(raw_data.cols,
                                 LAMBDA c : \E i \in DOMAIN o.val : o.val[i] = c.name)]
              ELSE raw_data

GetBinaryColumnList ==
    Called("get_binary_column_list", 0, get_binary_column_list(raw_data))
    /\ UNCHANGED raw_data
GetNonBinaryColumnList ==
    Called("get_non_binary_column_list", 0, get_non_binary_column_list(raw_data))
    /\ UNCHANGED raw_data
GetNumericColumnList ==
    Called("get_numeric_column_list", 0, get_numeric_column_list(raw_data))
    /\ UNCHANGED raw_data
GetCategoricalColumnList ==
    Called("get_categorical_column_list", 0, get_categorical_column_list(raw_data))
    /\ UNCHANGED raw_data
GetColumnsWithApparentMissingValues ==
    Called("get_columns_with_apparent_missing_values", 0,
           get_columns_with_apparent_missing_values(raw_data))
    /\ UNCHANGED raw_data
GetNormalityReport ==
    Called("get_normality_report", 0, get_normality_report(raw_data))
    /\ UNCHANGED raw_data

\* raw_data(raw_table): the instance keeps the table it is given.  The
\* pandas in use matters only to a table with an empty axis.
Init ==
    /\ raw_data \in Tables
    /\ pandas_empty_apply \in
           IF raw_data.nrows = 0 \/ Len(raw_data.cols) = 0
           THEN {"mask", "raise"} ELSE {"mask"}
    /\ last = NoCall
    /\ watched = NoneWatched
    /\ column = Column("int64", <<>>)
    /\ fn = ""
    /\ ret = NotCalled

Next ==
    \/ GetRowNumber
    \/ GetColumnNumber
    \/ SampleNRows
    \/ GetValues
    \/ GetColumns
    \/ GetBinaryColumnList
    \/ GetNonBinaryColumnList
    \/ GetNumericColumnList
    \/ GetCategoricalColumnList
    \/ GetColumnsWithApparentMissingValues
    \/ GetNormalityReport

\* the methods of a raw_data instance, called in any order
Spec == Init /\ [][Next]_vars

\* an instance constructed with a table that has rows and columns
FilledInit ==
    /\ Init
    /\ raw_data.nrows > 0
    /\ Len(raw_data.cols) > 0

\* the same methods on such a table: pandas's handling of an empty frame
\* plays no part
FilledSpec == FilledInit /\ [][Next]_vars

---------------------------------------------------------------------------
(* What the specification says of a column, stated without the code.       *)

\* a null entry: NaN or None
IsNull(cell) == cell.k \in {"nan", "none"}

\* u: the number of distinct non-null values
DistinctNonNull(col) ==
    Cardinality({col.vals[i] : i \in {j \in DOMAIN col.vals : ~IsNull(col.vals[j])}})

\* the semantic element type of a column
ElementType(col) ==
    CASE col.dtype = "int64" -> "integer"
      [] col.dtype \in {"float64", "float32"} -> "floating-point"
      [] col.dtype = "bool" -> "boolean"
      [] OTHER -> "string"

IsBinary(col) == DistinctNonNull(col) = 2

IsCategorical(col) ==
    /\ 2 < DistinctNonNull(col)
    /\ DistinctNonNull(col) <= 30
    /\ ElementType(col) \in {"string", "integer"}

IsContinuous(col) ==
    /\ DistinctNonNull(col) > 2
    /\ ElementType(col) \in {"integer", "floating-point"}

\* a member of the canonical marker set, the null sentinel included
IsMissingMarker(cell) == IsNull(cell) \/ cell \in Markers

NotBinary(col) == ~IsBinary(col)

\* the names, in column order, of the columns of t that are not Binary
NonBinaryNames(t) ==
    LET kept == SelectSeq(t.cols, NotBinary) IN [i \in 1..Len(kept) |-> kept[i].name]

\* the names, in column order, of the columns of t that are Continuous
ContinuousNames(t) ==
    LET kept == SelectSeq(t.cols, IsContinuous) IN [i \in 1..Len(kept) |-> kept[i].name]

Degenerate(t) == t.nrows = 0 \/ Len(t.cols) = 0

---------------------------------------------------------------------------
(* The claims.                                                             *)

\* C1: for any column, numeric, text or boolean, with or without nulls,
\* unique_values_count returns the number of distinct non-null values and
\* binary_column_recognition returns true exactly when that number is 2.
C1_UniqueCountAndBinary ==
    /\ fn = "unique_values_count" => Returned(ret, DistinctNonNull(column))
    /\ fn = "binary_column_recognition" => Returned(ret, IsBinary(column))

\* C2: categorical_column_recognition returns true exactly when 2 < u <= 30
\* and the values are string-like or integer-like; a text column of 3 to 30
\* distinct values is Categorical.
C2_CategoricalExactly ==
    fn = "categorical_column_recognition" =>
        (Returned(ret, TRUE) <=> IsCategorical(column))

\* C3: continuous_variable_recognition returns true exactly when u > 2 and
\* the values are integer-like or floating-point-like, and an integer column
\* with 2 < u <= 30 is both Categorical and Continuous.
C3_ContinuousExactlyAndOverlap ==
    /\ fn = "continuous_variable_recognition" =>
           (Returned(ret, TRUE) <=> IsContinuous(column))
    /\ (/\ column.dtype = "int64"
        /\ 2 < DistinctNonNull(column)
        /\ DistinctNonNull(column) <= 30
        /\ fn \in {"categorical_column_recognition", "continuous_variable_recognition"})
       => Returned(ret, TRUE)

\* C4: on a column with fewer than two distinct non-null values each of the
\* three recognisers returns false and does not raise.
C4_FewerThanTwoIsUnclassified ==
    (/\ DistinctNonNull(column) < 2
     /\ fn \in {"binary_column_recognition", "categorical_column_recognition",
                "continuous_variable_recognition"})
    => Returned(ret, FALSE)

\* C5: on a non-empty column column_with_missing_value returns true exactly
\* when the first value is a member of the marker set, null included, and
\* false otherwise.
C5_FirstValueDecides ==
    (fn = "column_with_missing_value" /\ Len(column.vals) > 0)
    => Returned(ret, IsMissingMarker(column.vals[1]))

\* C6: on a table with no rows or no columns get_row_number,
\* get_column_number, get_values and get_columns each print a diagnostic and
\* return None; none raises.
C6_DegenerateTableIsAbsent ==
    (/\ Degenerate(raw_data)
     /\ last.method \in {"get_row_number", "get_column_number", "get_values", "get_columns"})
    => (last.tag = "none" /\ last.out # <<>>)

\* C7: get_non_binary_column_list returns the names, in column order, of the
\* columns that are not Binary, every name when no column is Binary; when
\* there is none it prints a diagnostic and returns None; it never raises.
C7_NonBinaryColumnList ==
    last.method = "get_non_binary_column_list" =>
        IF Len(NonBinaryNames(raw_data)) > 0
        THEN last.tag = "value" /\ last.val = NonBinaryNames(raw_data)
        ELSE last.tag = "none" /\ last.out # <<>>

\* C8: sample_n_rows(n) prints a diagnostic and returns None for every
\* n < 1, and for 1 <= n <= row count returns exactly n distinct rows of the
\* table; in neither case does it raise.
C8_SampleNRows ==
    last.method = "sample_n_rows" =>
        /\ last.arg < 1 => (last.tag = "none" /\ last.out # <<>>)
        /\ (1 <= last.arg /\ last.arg <= raw_data.nrows) =>
               /\ last.tag = "value"
               /\ Cardinality(last.val) = last.arg
               /\ last.val \subseteq 1..raw_data.nrows

\* C8 happens: two rows were asked of a table that has them, and returned
C8_SampledTwoRows ==
    /\ last.method = "sample_n_rows"
    /\ last.arg = 2
    /\ last.tag = "value"
    /\ raw_data.nrows > 2

\* C9: get_normality_report has one row for each Continuous column and none
\* for any other column; when no column is Continuous it prints a diagnostic
\* and returns None, and does not raise.
C9_NormalityReport ==
    last.method = "get_normality_report" =>
        IF Len(ContinuousNames(raw_data)) > 0
        THEN last.tag = "value" /\ last.val = ContinuousNames(raw_data)
        ELSE last.tag = "none" /\ last.out # <<>>

\* a call of the method kept in watched has the kept outcome
SameAsWatched ==
    last.method = watched.method =>
        /\ last.tag = watched.tag
        /\ last.val = watched.val
        /\ last.out = watched.out

=============================================================================
